---------------------------- MODULE Spec2Model ----------------------------
(***************************************************************************)
(* A model of the tournament schedule generator (src/main.py): the circle  *)
(* method of round_robin_pairings, the mirroring of double_round_robin,    *)
(* the two table builders, and write_excel's two file operations on the    *)
(* output path.                                                            *)
(*                                                                         *)
(* Python lists are sequences (index 0 of the code is index 1 here), a     *)
(* tuple (a, b) is the sequence <<a, b>>, and a raised exception is the    *)
(* name of its class in the variable err.                                  *)
(***************************************************************************)
EXTENDS Integers, Sequences, FiniteSets, TLC

VARIABLES
    players,        \* main's argument: the ordered player list
    double_round,   \* main's argument: the double round-robin flag
    pc,             \* the position of the run in main / write_excel
    fixed,          \* round_robin_pairings: players[0]
    others,         \* round_robin_pairings: the rotating rest of the lineup
    k,              \* round_robin_pairings: iterations of the loop done
    rounds,         \* the schedule built so far (the local, then main's)
    single_rounds,  \* double_round_robin's argument
    schedule_df,    \* build_schedule_df's frame
    points_df,      \* build_points_df's frame
    file,           \* the artifact at output_path, on disk
    wb,             \* the workbook load_workbook holds in memory
    prior,          \* what output_path held when the run began
    err,            \* the exception that ended the run, "" when none
    runs            \* runs begun against the same output_path

vars == <<players, double_round, pc, fixed, others, k, rounds, single_rounds,
          schedule_df, points_df, file, wb, prior, err, runs>>

----------------------------------------------------------------------------
(* Bounds of the model.                                                    *)

\* Longest player list of a run; SpecPairings explores every ordering of it.
MaxPlayers == 6

\* Runs against the same output path.
MaxRuns == 2

\* Rounds of a schedule handed to a function on its own, and pairings in
\* one of its rounds (SpecDouble, SpecBuild).
MaxRounds == 2
MaxRoundLen == 2

\* Players and rounds of the frames handed to write_excel on its own
\* (SpecWrite): enough players to pass sheet column Z.
MaxWritePlayers == 26
MaxWriteRounds == 2

----------------------------------------------------------------------------
(* Player labels.                                                          *)

Letters == <<"A", "B", "C", "D", "E", "F", "G", "H">>

\* The i-th player label: A..H, then P9, P10, ...
Label(i) == IF i <= Len(Letters) THEN Letters[i] ELSE "P" \o ToString(i)

\* The player list Label(1), ..., Label(n).
LabelList(n) == [i \in 1..n |-> Label(i)]

\* Every list of at most n distinct labels out of the first n.
DistinctLists(n) ==
    UNION { { s \in [1..m -> {Label(i) : i \in 1..n}] :
                \A i, j \in 1..m : i # j => s[i] # s[j] } : m \in 0..n }

----------------------------------------------------------------------------
(* round_robin_pairings (src/main.py 7-21).                                *)

\* list(reversed(s))
Reverse(s) == [i \in 1..Len(s) |-> s[Len(s) + 1 - i]]

\* Lines 14-18 with the split one place early: seq[half-1:-1] for the right half.
PairsSplitEarly(fx, oth, n) ==
    LET seq   == <<fx>> \o oth
        half  == n \div 2
        left  == SubSeq(seq, 1, half)
        right == Reverse(SubSeq(seq, half, Len(seq) - 1))
    IN  [i \in 1..half |-> <<left[i], right[i]>>]

\* Lines 14-18: one round's pairs from the lineup [fixed] + others.
Pairs(fx, oth, n) ==
    LET seq   == <<fx>> \o oth
        half  == n \div 2
        left  == SubSeq(seq, 1, half)
        right == Reverse(SubSeq(seq, half + 1, Len(seq)))
    IN  [i \in 1..half |-> <<left[i], right[i]>>]

\* Line 20 without the rotation.
RotateNot(oth) == oth

\* Line 20 rotating the other way: others[1:] + [others[0]].
RotateLeft(oth) == SubSeq(oth, 2, Len(oth)) \o <<oth[1]>>

\* Line 20: [others[-1]] + others[:-1].
Rotate(oth) == <<oth[Len(oth)]>> \o SubSeq(oth, 1, Len(oth) - 1)

\* The loop of lines 13-20 from iteration i on, as a function of its state.
RECURSIVE LoopFrom(_, _, _, _, _)
LoopFrom(fx, oth, n, i, acc) ==
    IF i >= n - 1 THEN acc
    ELSE LoopFrom(fx, Rotate(oth), n, i + 1, Append(acc, Pairs(fx, oth, n)))

\* round_robin_pairings as a function of a non-empty player list.
round_robin_pairings(ps) == LoopFrom(ps[1], Tail(ps), Len(ps), 0, <<>>)

\* Lines 9-12 with a guard for the empty list: return [] instead of indexing.
RR_EnterGuarded ==
    /\ pc = "start"
    /\ fixed' = IF players = <<>> THEN "" ELSE players[1]
    /\ others' = IF players = <<>> THEN <<>> ELSE Tail(players)
    /\ rounds' = <<>>
    /\ k' = 0
    /\ pc' = "loop"
    /\ UNCHANGED <<players, double_round, single_rounds, schedule_df,
                   points_df, file, wb, prior, err, runs>>

\* Lines 9-12: n, fixed = players[0] (IndexError on the empty list),
\* others = players[1:], rounds = [].
RR_Enter ==
    /\ pc = "start"
    /\ IF players = <<>>
         THEN /\ err' = "IndexError"
              /\ pc' = "error"
              /\ UNCHANGED <<fixed, others, rounds, k>>
         ELSE /\ fixed' = players[1]
              /\ others' = Tail(players)
              /\ rounds' = <<>>
              /\ k' = 0
              /\ pc' = "loop"
              /\ err' = err
    /\ UNCHANGED <<players, double_round, single_rounds, schedule_df,
                   points_df, file, wb, prior, runs>>

\* Lines 13-20: one iteration of for _ in range(n - 1).
RR_Iterate ==
    /\ pc = "loop"
    /\ k < Len(players) - 1
    /\ rounds' = Append(rounds, Pairs(fixed, others, Len(players)))
    /\ others' = Rotate(others)
    /\ k' = k + 1
    /\ UNCHANGED <<players, double_round, pc, fixed, single_rounds,
                   schedule_df, points_df, file, wb, prior, err, runs>>

\* Lines 13, 21 and 74: the range is exhausted, rounds is returned to main.
RR_Return ==
    /\ pc = "loop"
    /\ k >= Len(players) - 1
    /\ pc' = "returned"
    /\ UNCHANGED <<players, double_round, fixed, others, k, rounds,
                   single_rounds, schedule_df, points_df, file, wb, prior, err, runs>>

----------------------------------------------------------------------------
(* double_round_robin (src/main.py 23-26) and main's use of it (75-76).    *)

\* Lines 25-26 appending the copy without swapping the pairs.
double_round_robin_unswapped(S) == S \o S

\* Lines 25-26 appending the mirrored rounds in reverse order.
double_round_robin_backwards(S) ==
    S \o [r \in 1..Len(S) |->
            [i \in 1..Len(S[Len(S) + 1 - r]) |->
                <<S[Len(S) + 1 - r][i][2], S[Len(S) + 1 - r][i][1]>>]]

\* Lines 25-26: the rounds, then every round again with each pair swapped.
double_round_robin(S) ==
    LET mirrored == [r \in 1..Len(S) |->
                        [i \in 1..Len(S[r]) |-> <<S[r][i][2], S[r][i][1]>>]]
    IN  S \o mirrored

\* Lines 75-76 with double_round set.
Main_Double ==
    /\ pc = "returned"
    /\ double_round
    /\ single_rounds' = rounds
    /\ rounds' = double_round_robin(rounds)
    /\ pc' = "scheduled"
    /\ UNCHANGED <<players, double_round, fixed, others, k, schedule_df,
                   points_df, file, wb, prior, err, runs>>

\* Line 75 with double_round unset: rounds stays the single round-robin.
Main_Single ==
    /\ pc = "returned"
    /\ ~double_round
    /\ pc' = "scheduled"
    /\ UNCHANGED <<players, double_round, fixed, others, k, rounds,
                   single_rounds, schedule_df, points_df, file, wb, prior, err, runs>>

----------------------------------------------------------------------------
(* Data frames.  A frame is its row labels (index), its column labels and  *)
(* one list of cell values per column.  A constructor that can raise       *)
(* returns [error, df], error being "" when it did not.                    *)

NoFrame == [index |-> <<>>, columns |-> <<>>, data |-> <<>>]

Raised(e) == [error |-> e, df |-> NoFrame]

Returned(df) == [error |-> "", df |-> df]

\* pd.DataFrame(data) of a dict of lists: the lists must all be of one length
\* (ValueError otherwise); the rows are labelled 0, 1, ... until line 37.
DataFrame(columns, data) ==
    LET lens  == {Len(data[c]) : c \in 1..Len(data)}
        nrows == IF lens = {} THEN 0 ELSE CHOOSE l \in lens : TRUE
    IN  IF Cardinality(lens) > 1
          THEN Raised("ValueError")
          ELSE Returned([index   |-> [i \in 1..nrows |-> ToString(i - 1)],
                         columns |-> columns,
                         data    |-> data])

\* df.index = labels: as many labels as the frame has rows, ValueError otherwise.
SetIndex(df, labels) ==
    IF Len(labels) # Len(df.index)
      THEN Raised("ValueError")
      ELSE Returned([df EXCEPT !.index = labels])

\* Line 32: f"{a} vs {b}" for each pairing of the round.
Cells(rnd) == [i \in 1..Len(rnd) |-> rnd[i][1] \o " vs " \o rnd[i][2]]

\* Lines 33-34 left out: the cells as they are.
PadNot(cells, tables) == cells

\* Lines 33-34: while len(cells) < tables: cells.append("").
Pad(cells, tables) ==
    IF Len(cells) < tables
      THEN cells \o [i \in 1..(tables - Len(cells)) |-> ""]
      ELSE cells

\* Lines 31, 35: the column labels Round 1, Round 2, ...
RoundLabels(num) == [i \in 1..num |-> "Round " \o ToString(i)]

\* Line 37: the row labels Table 1, Table 2, ...
TableLabels(tables) == [i \in 1..tables |-> "Table " \o ToString(i)]

\* build_schedule_df (src/main.py 28-38).
build_schedule_df(ps, rnds) ==
    LET tables == Len(ps) \div 2
        data   == [r \in 1..Len(rnds) |-> Pad(Cells(rnds[r]), tables)]
        made   == DataFrame(RoundLabels(Len(rnds)), data)
    IN  IF made.error # "" THEN made
        ELSE SetIndex(made.df, TableLabels(tables))

\* build_points_df (src/main.py 40-45): "" in every cell, a row per round and
\* a column per player.
build_points_df(ps, num_rounds) ==
    [index   |-> RoundLabels(num_rounds),
     columns |-> ps,
     data    |-> [c \in 1..Len(ps) |-> [r \in 1..num_rounds |-> ""]]]

\* Line 77.
BuildSchedule ==
    /\ pc = "scheduled"
    /\ LET made == build_schedule_df(players, rounds) IN
         IF made.error # ""
           THEN /\ err' = made.error
                /\ pc' = "error"
                /\ schedule_df' = schedule_df
           ELSE /\ schedule_df' = made.df
                /\ pc' = "tabled"
                /\ err' = err
    /\ UNCHANGED <<players, double_round, fixed, others, k, rounds,
                   single_rounds, points_df, file, wb, prior, runs>>

\* Line 78.
BuildPoints ==
    /\ pc = "tabled"
    /\ points_df' = build_points_df(players, Len(rounds))
    /\ pc' = "pointed"
    /\ UNCHANGED <<players, double_round, fixed, others, k, rounds,
                   single_rounds, schedule_df, file, wb, prior, err, runs>>

----------------------------------------------------------------------------
(* Workbooks.  A workbook is its sheet names in order and, for each sheet, *)
(* its rows of cells and its column widths (none until they are set).  A   *)
(* cell holds nothing, a text or a formula.                                *)

NoWorkbook == [exists |-> FALSE, names |-> <<>>, cells |-> <<>>, widths |-> <<>>]

EmptyWorkbook == [exists |-> TRUE, names |-> <<>>, cells |-> <<>>, widths |-> <<>>]

Nothing == [kind |-> "none"]

Text(s) == [kind |-> "str", text |-> s]

\* Line 70: the narrowest and the widest column, and the room left of the text.
MinWidth == 12
MaxWidth == 40
WidthPad == 2

Alphabet == <<"A", "B", "C", "D", "E", "F", "G", "H", "I", "J", "K", "L", "M",
              "N", "O", "P", "Q", "R", "S", "T", "U", "V", "W", "X", "Y", "Z">>

\* Line 60: the letters of sheet column idx (1 is A, 26 is Z, 27 is AA), one
\* letter per element.
RECURSIVE get_column_letter(_)
get_column_letter(idx) ==
    IF idx <= 0 THEN <<>>
    ELSE LET rem  == idx % 26
             r    == IF rem = 0 THEN 26 ELSE rem
             rest == IF rem = 0 THEN (idx \div 26) - 1 ELSE idx \div 26
         IN  get_column_letter(rest) \o <<Alphabet[r]>>

\* The letters as one string.
RECURSIVE Join(_)
Join(letters) == IF letters = <<>> THEN "" ELSE Head(letters) \o Join(Tail(letters))

\* Lines 61-63: =SUM(Points!<col>2:<col><rows+1>), kept as its parts.
SumFormula(col_letter, nrows) ==
    [kind  |-> "formula", fn |-> "SUM", sheet |-> "Points",
     first |-> [col |-> col_letter, row |-> 2],
     last  |-> [col |-> col_letter, row |-> nrows + 1]]

\* The text of a formula cell, as line 63 formats it.
FormulaText(f) ==
    "=" \o f.fn \o "(" \o f.sheet \o "!" \o Join(f.first.col) \o ToString(f.first.row)
        \o ":" \o Join(f.last.col) \o ToString(f.last.row) \o ")"

\* Line 69: len(str(cell.value)), 0 for an empty cell.
TextLen(cell) ==
    CASE cell.kind = "none"    -> 0
      [] cell.kind = "str"     -> Len(cell.text)
      [] cell.kind = "formula" -> Len(FormulaText(cell))

\* df.to_excel: a header row (an empty corner, then the column labels), then
\* one row per index label with the row's cells.
Grid(df) ==
    <<  <<Nothing>> \o [c \in 1..Len(df.columns) |-> Text(df.columns[c])]  >>
    \o [i \in 1..Len(df.index) |->
            <<Text(df.index[i])>> \o [c \in 1..Len(df.columns) |-> Text(df.data[c][i])]]

\* The position of a sheet in a workbook, 0 when it has none of that name.
SheetIndex(book, name) ==
    IF \E i \in 1..Len(book.names) : book.names[i] = name
      THEN CHOOSE i \in 1..Len(book.names) : book.names[i] = name
      ELSE 0

HasSheet(book, name) == SheetIndex(book, name) # 0

Without(s, i) == SubSeq(s, 1, i - 1) \o SubSeq(s, i + 1, Len(s))

\* wb.remove(wb[name])
RemoveSheet(book, name) ==
    LET i == SheetIndex(book, name) IN
    [book EXCEPT !.names = Without(@, i), !.cells = Without(@, i),
                 !.widths = Without(@, i)]

\* A new sheet after the others (to_excel on a fresh writer, wb.create_sheet
\* and the rows appended to it).
AddSheet(book, name, grid) ==
    [book EXCEPT !.names = Append(@, name), !.cells = Append(@, grid),
                 !.widths = Append(@, <<>>)]

\* Line 49 opening the writer on the workbook the path holds (mode="a").
ExcelWriterAppending(onDisk) ==
    IF onDisk.exists
      THEN LET a == IF HasSheet(onDisk, "Schedule")
                      THEN RemoveSheet(onDisk, "Schedule") ELSE onDisk
           IN  IF HasSheet(a, "Points") THEN RemoveSheet(a, "Points") ELSE a
      ELSE EmptyWorkbook

\* Line 49: pd.ExcelWriter(output_path) in its default mode "w" starts a new
\* workbook, whatever the path holds.
ExcelWriter(onDisk) == EmptyWorkbook

\* The number of columns of a sheet: its longest row.
NumCols(grid) ==
    IF grid = <<>> THEN 0
    ELSE CHOOSE n \in {Len(grid[i]) : i \in 1..Len(grid)} :
            \A i \in 1..Len(grid) : Len(grid[i]) <= n

Max(S) == CHOOSE x \in S : \A y \in S : y <= x

Min(S) == CHOOSE x \in S : \A y \in S : x <= y

\* Lines 68-70 for one sheet: min(max(12, longest text + 2), 40) per column.
ColumnWidths(grid) ==
    [c \in 1..NumCols(grid) |->
        LET length == Max({IF c <= Len(grid[i]) THEN TextLen(grid[i][c]) ELSE 0
                             : i \in 1..Len(grid)})
        IN  Min({Max({MinWidth, length + WidthPad}), MaxWidth})]

\* Lines 58-64 with the columns counted from A: enumerate(..., start=1).
StandingsRowsFromColumnA(points) ==
    << <<Text("Player"), Text("Total Points")>> >>
    \o [i \in 1..Len(points.columns) |->
            <<Text(points.columns[i]),
              SumFormula(get_column_letter(i), Len(points.index))>>]

\* Lines 58-64: the header, then a row per column of points_df, whose sum
\* is over sheet column i + 1 (the players start at column B).
StandingsRows(points) ==
    << <<Text("Player"), Text("Total Points")>> >>
    \o [i \in 1..Len(points.columns) |->
            <<Text(points.columns[i]),
              SumFormula(get_column_letter(i + 1), Len(points.index))>>]

\* Lines 49-51: the first file operation.  Leaving the with block saves the
\* Schedule and Points sheets to output_path.
WriteBase ==
    /\ pc = "pointed"
    /\ file' = AddSheet(AddSheet(ExcelWriter(file), "Schedule", Grid(schedule_df)),
                        "Points", Grid(points_df))
    /\ pc' = "written"
    /\ UNCHANGED <<players, double_round, fixed, others, k, rounds,
                   single_rounds, schedule_df, points_df, wb, prior, err, runs>>

\* Line 53: load_workbook(output_path).
LoadWorkbook ==
    /\ pc = "written"
    /\ wb' = file
    /\ pc' = "loaded"
    /\ UNCHANGED <<players, double_round, fixed, others, k, rounds,
                   single_rounds, schedule_df, points_df, file, prior, err, runs>>

\* Lines 54-64 with wb.save(output_path) moved up, right after the rows.
AddStandingsAndSave ==
    /\ pc = "loaded"
    /\ LET base == IF HasSheet(wb, "Standings")
                     THEN RemoveSheet(wb, "Standings") ELSE wb
       IN  /\ wb' = AddSheet(base, "Standings", StandingsRows(points_df))
           /\ file' = wb'
    /\ pc' = "standings"
    /\ UNCHANGED <<players, double_round, fixed, others, k, rounds,
                   single_rounds, schedule_df, points_df, prior, err, runs>>

\* Lines 54-64: drop a Standings sheet the workbook has, create it anew and
\* fill it, in memory.
AddStandings ==
    /\ pc = "loaded"
    /\ LET base == IF HasSheet(wb, "Standings")
                     THEN RemoveSheet(wb, "Standings") ELSE wb
       IN  wb' = AddSheet(base, "Standings", StandingsRows(points_df))
    /\ pc' = "standings"
    /\ UNCHANGED <<players, double_round, fixed, others, k, rounds,
                   single_rounds, schedule_df, points_df, file, prior, err, runs>>

\* Lines 66-70: the column widths of the three sheets, in memory.
AutoSize ==
    /\ pc = "standings"
    /\ wb' = [wb EXCEPT !.widths =
                [s \in 1..Len(wb.names) |->
                    IF wb.names[s] \in {"Schedule", "Points", "Standings"}
                      THEN ColumnWidths(wb.cells[s])
                      ELSE wb.widths[s]]]
    /\ pc' = "sized"
    /\ UNCHANGED <<players, double_round, fixed, others, k, rounds,
                   single_rounds, schedule_df, points_df, file, prior, err, runs>>

\* Line 71: wb.save(output_path), the end of the second file operation.
Save ==
    /\ pc = "sized"
    /\ file' = wb
    /\ pc' = "saved"
    /\ UNCHANGED <<players, double_round, fixed, others, k, rounds,
                   single_rounds, schedule_df, points_df, wb, prior, err, runs>>

\* Lines 80-83: the summary is printed and main returns.
Finish ==
    /\ pc = "saved"
    /\ pc' = "done"
    /\ UNCHANGED <<players, double_round, fixed, others, k, rounds,
                   single_rounds, schedule_df, points_df, file, wb, prior, err, runs>>

----------------------------------------------------------------------------
(* The inputs and what the output path may hold before a run.              *)

\* The player lists of a run: A; A, B; A, B, C; ... and the empty list.
PlayerLists == {LabelList(n) : n \in 0..MaxPlayers}

\* A workbook left at the path by something else: an old Schedule, a stale
\* Standings and a sheet of notes.
StaleWorkbook ==
    [exists |-> TRUE,
     names  |-> <<"Schedule", "Standings", "Notes">>,
     cells  |-> << << <<Nothing, Text("Round 1")>>, <<Text("Table 1"), Text("Y vs Z")>> >>,
                   << <<Text("Player"), Text("Total Points")>>, <<Text("Z"), Text("99")>> >>,
                   << <<Text("keep")>> >> >>,
     widths |-> << <<>>, <<20, 20>>, <<>> >>]

\* A workbook with a sheet of its own and none of the three.
OtherWorkbook ==
    [exists |-> TRUE,
     names  |-> <<"Sheet1">>,
     cells  |-> << << <<Text("x")>> >> >>,
     widths |-> << <<>> >>]

PriorFiles == {NoWorkbook, StaleWorkbook, OtherWorkbook}

SeqsUpTo(S, n) == UNION {[1..m -> S] : m \in 0..n}

\* Schedules as a caller may hand them to double_round_robin or
\* build_schedule_df: any number of pairings in a round, rounds of unequal
\* length, no round at all.
PairPool == {<<"A", "B">>, <<"C", "D">>}

ArbRounds == SeqsUpTo(PairPool, MaxRoundLen)

ArbSchedules == SeqsUpTo(ArbRounds, MaxRounds)

\* A frame of the given labels with "" in every cell.
BlankFrame(index, columns) ==
    [index   |-> index,
     columns |-> columns,
     data    |-> [c \in 1..Len(columns) |-> [r \in 1..Len(index) |-> ""]]]

----------------------------------------------------------------------------
(* The whole program: main, run again and again against one output path.   *)

Init ==
    /\ players \in PlayerLists
    /\ double_round \in BOOLEAN
    /\ pc = "start"
    /\ fixed = ""
    /\ others = <<>>
    /\ k = 0
    /\ rounds = <<>>
    /\ single_rounds = <<>>
    /\ schedule_df = NoFrame
    /\ points_df = NoFrame
    /\ file \in PriorFiles
    /\ wb = NoWorkbook
    /\ prior = file
    /\ err = ""
    /\ runs = 1

\* Lines 85-91: the script is started again, with the same or other inputs,
\* after a run that completed or raised.
Rerun ==
    /\ pc \in {"done", "error"}
    /\ runs < MaxRuns
    /\ players' \in PlayerLists
    /\ double_round' \in BOOLEAN
    /\ pc' = "start"
    /\ fixed' = ""
    /\ others' = <<>>
    /\ k' = 0
    /\ rounds' = <<>>
    /\ single_rounds' = <<>>
    /\ schedule_df' = NoFrame
    /\ points_df' = NoFrame
    /\ wb' = NoWorkbook
    /\ prior' = file
    /\ err' = ""
    /\ runs' = runs + 1
    /\ file' = file

Next ==
    \/ RR_Enter \/ RR_Iterate \/ RR_Return
    \/ Main_Double \/ Main_Single
    \/ BuildSchedule \/ BuildPoints
    \/ WriteBase \/ LoadWorkbook \/ AddStandings \/ AutoSize \/ Save
    \/ Finish \/ Rerun

Spec == Init /\ [][Next]_vars

----------------------------------------------------------------------------
(* The pairing generator and the expander on every ordering of every       *)
(* player list of at most MaxPlayers distinct labels (main, lines 74-76).  *)

InitPairings ==
    /\ players \in DistinctLists(MaxPlayers)
    /\ double_round \in BOOLEAN
    /\ pc = "start"
    /\ fixed = ""
    /\ others = <<>>
    /\ k = 0
    /\ rounds = <<>>
    /\ single_rounds = <<>>
    /\ schedule_df = NoFrame
    /\ points_df = NoFrame
    /\ file = NoWorkbook
    /\ wb = NoWorkbook
    /\ prior = NoWorkbook
    /\ err = ""
    /\ runs = 1

NextPairings == RR_Enter \/ RR_Iterate \/ RR_Return \/ Main_Double \/ Main_Single

SpecPairings == InitPairings /\ [][NextPairings]_vars

----------------------------------------------------------------------------
(* double_round_robin on its own: on the schedules main hands it and on    *)
(* any schedule a caller may.                                              *)

InitDouble ==
    /\ \/ /\ players \in PlayerLists \ {<<>>}
          /\ rounds = round_robin_pairings(players)
       \/ /\ players = <<>>
          /\ rounds \in ArbSchedules
    /\ double_round = TRUE
    /\ pc = "returned"
    /\ fixed = ""
    /\ others = <<>>
    /\ k = 0
    /\ single_rounds = <<>>
    /\ schedule_df = NoFrame
    /\ points_df = NoFrame
    /\ file = NoWorkbook
    /\ wb = NoWorkbook
    /\ prior = NoWorkbook
    /\ err = ""
    /\ runs = 1

SpecDouble == InitDouble /\ [][Main_Double]_vars

----------------------------------------------------------------------------
(* build_schedule_df on its own: any player list with any schedule.        *)

InitBuild ==
    /\ players \in PlayerLists
    /\ rounds \in ArbSchedules
    /\ double_round = FALSE
    /\ pc = "scheduled"
    /\ fixed = ""
    /\ others = <<>>
    /\ k = 0
    /\ single_rounds = <<>>
    /\ schedule_df = NoFrame
    /\ points_df = NoFrame
    /\ file = NoWorkbook
    /\ wb = NoWorkbook
    /\ prior = NoWorkbook
    /\ err = ""
    /\ runs = 1

SpecBuild == InitBuild /\ [][BuildSchedule]_vars

----------------------------------------------------------------------------
(* write_excel on its own: the frames of any number of players and rounds. *)

InitWrite ==
    /\ players \in {LabelList(n) : n \in 0..MaxWritePlayers}
    /\ \E num \in 0..MaxWriteRounds :
          /\ schedule_df = BlankFrame(TableLabels(Len(players) \div 2), RoundLabels(num))
          /\ points_df = build_points_df(players, num)
    /\ double_round = FALSE
    /\ pc = "pointed"
    /\ fixed = ""
    /\ others = <<>>
    /\ k = 0
    /\ rounds = <<>>
    /\ single_rounds = <<>>
    /\ file \in PriorFiles
    /\ wb = NoWorkbook
    /\ prior = file
    /\ err = ""
    /\ runs = 1

NextWrite == WriteBase \/ LoadWorkbook \/ AddStandings \/ AutoSize \/ Save

SpecWrite == InitWrite /\ [][NextWrite]_vars

----------------------------------------------------------------------------
(* What the claims speak of.                                               *)

PlayerSet == {players[i] : i \in 1..Len(players)}

\* An even number of players, at least two: the input the circle method is for.
EvenInput == Len(players) >= 2 /\ Len(players) % 2 = 0

\* The (round, table) places of a schedule.
Slots(S) == UNION { {<<r, i>> : i \in 1..Len(S[r])} : r \in 1..Len(S) }

\* The places where a and b meet, in either order.
Meetings(S, a, b) == {sl \in Slots(S) : {S[sl[1]][sl[2]][1], S[sl[1]][sl[2]][2]} = {a, b}}

\* The places where a is listed first and b second.
HomeGames(S, a, b) == {sl \in Slots(S) : S[sl[1]][sl[2]] = <<a, b>>}

\* The seats of a round that p occupies.
Seats(rnd, p) == {s \in (1..Len(rnd)) \X {1, 2} : rnd[s[1]][s[2]] = p}

\* Every player of P sits in exactly one seat of the round, nobody else sits
\* in it, and no pairing is a player against itself.
CoversOnce(rnd, P) ==
    /\ \A p \in P : Cardinality(Seats(rnd, p)) = 1
    /\ \A i \in 1..Len(rnd) : rnd[i][1] \in P /\ rnd[i][2] \in P /\ rnd[i][1] # rnd[i][2]

\* C1: for an even number N >= 2 of distinct players round_robin_pairings
\* returns N-1 rounds of N/2 pairings each, C(N,2) pairings in all, and every
\* unordered pair of distinct players meets in exactly one of them.
C1_SingleRoundRobinComplete ==
    (pc = "returned" /\ EvenInput) =>
        LET N == Len(players) IN
        /\ Len(rounds) = N - 1
        /\ \A r \in 1..Len(rounds) : Len(rounds[r]) = N \div 2
        /\ Cardinality(Slots(rounds)) = (N * (N - 1)) \div 2
        /\ \A a, b \in PlayerSet : a # b => Cardinality(Meetings(rounds, a, b)) = 1

C1_Witness == pc = "returned" /\ EvenInput /\ Len(players) >= 4

\* C2: for an even number of distinct players, every round built so far, at
\* every iteration of the loop and at the return, seats every player exactly
\* once and pairs nobody with itself; the lineup of the next round is an
\* ordering of the players.
C2_EveryRoundCoversPlayers ==
    (pc \in {"loop", "returned"} /\ EvenInput) =>
        /\ \A r \in 1..Len(rounds) : CoversOnce(rounds[r], PlayerSet)
        /\ Len(others) = Len(players) - 1
        /\ {fixed} \cup {others[i] : i \in 1..Len(others)} = PlayerSet

C2_Witness == pc = "loop" /\ EvenInput /\ k >= 2 /\ Len(rounds) = k

\* C7: for players [A, B, C, D] the rounds are, in order and orientation,
\* (A,D),(B,C); (A,C),(D,B); (A,B),(C,D).
C7_FourPlayerSchedule ==
    (pc = "returned" /\ players = <<"A", "B", "C", "D">>) =>
        rounds = << << <<"A", "D">>, <<"B", "C">> >>,
                    << <<"A", "C">>, <<"D", "B">> >>,
                    << <<"A", "B">>, <<"C", "D">> >> >>

C7_Witness == pc = "returned" /\ players = <<"A", "B", "C", "D">> /\ Len(rounds) = 3

\* C8 as stated: no player list with an odd count or fewer than two players
\* makes round_robin_pairings raise.
C8_NeverRaises ==
    (Len(players) % 2 = 1 \/ Len(players) < 2) => (pc # "error" /\ err = "")

\* C8 amended: the empty list raises IndexError at players[0]; an odd count
\* raises nothing and returns N-1 rounds of (N-1)/2 pairings, none of which
\* seats every player (no round at all for a single player).
C8_OddOrEmptyInput ==
    /\ (players = <<>> /\ pc # "start") => (pc = "error" /\ err = "IndexError")
    /\ (Len(players) % 2 = 1) =>
          /\ pc # "error" /\ err = ""
          /\ pc = "returned" =>
                /\ Len(rounds) = Len(players) - 1
                /\ \A r \in 1..Len(rounds) :
                      /\ Len(rounds[r]) = (Len(players) - 1) \div 2
                      /\ ~CoversOnce(rounds[r], PlayerSet)

C8_Witness == pc = "returned" /\ Len(players) % 2 = 1 /\ Len(players) >= 3

\* C10: for an even number N >= 2 of distinct players the doubled schedule has
\* 2*(N-1) rounds, every ordered pair (a, b) of distinct players occurs in
\* exactly one place, and every round seats every player exactly once.
C10_DoubleRoundRobinHomeAndAway ==
    (pc = "scheduled" /\ double_round /\ EvenInput) =>
        /\ Len(rounds) = 2 * (Len(players) - 1)
        /\ \A a, b \in PlayerSet : a # b => Cardinality(HomeGames(rounds, a, b)) = 1
        /\ \A r \in 1..Len(rounds) : CoversOnce(rounds[r], PlayerSet)

C10_Witness == pc = "scheduled" /\ double_round /\ EvenInput /\ Len(players) >= 4

\* C3: double_round_robin(S) is twice as long as S, begins with S unchanged,
\* and its round L+r is round r of S with every pair swapped, table by
\* table; for six players that is 10 rounds of 3 tables, round 6 being
\* round 1 reversed.
C3_DoubleIsScheduleThenMirror ==
    pc = "scheduled" =>
        LET S == single_rounds
            L == Len(single_rounds)
        IN  /\ Len(rounds) = 2 * L
            /\ SubSeq(rounds, 1, L) = S
            /\ \A r \in 1..L :
                  /\ Len(rounds[L + r]) = Len(S[r])
                  /\ \A i \in 1..Len(S[r]) :
                        /\ rounds[L + r][i][1] = S[r][i][2]
                        /\ rounds[L + r][i][2] = S[r][i][1]
            /\ Len(players) = 6 =>
                  /\ Len(rounds) = 10
                  /\ \A r \in 1..10 : Len(rounds[r]) = 3
                  /\ \A i \in 1..3 : rounds[6][i] = <<rounds[1][i][2], rounds[1][i][1]>>

C3_Witness ==
    /\ pc = "scheduled"
    /\ Len(players) = 6
    /\ Len(single_rounds) = 5
    /\ rounds[6][1] = <<"F", "A">>

Tables == Len(players) \div 2

\* The frame the claim describes: a row per table, a column per round, the
\* label of the t-th pairing of round r in cell (t, r), "" past the round's
\* last pairing.
ScheduleTableAsClaimed ==
    /\ schedule_df.index = [t \in 1..Tables |-> "Table " \o ToString(t)]
    /\ schedule_df.columns = [r \in 1..Len(rounds) |-> "Round " \o ToString(r)]
    /\ Len(schedule_df.data) = Len(rounds)
    /\ \A r \in 1..Len(rounds) :
          /\ Len(schedule_df.data[r]) = Tables
          /\ \A t \in 1..Tables :
                schedule_df.data[r][t] =
                    IF t <= Len(rounds[r])
                      THEN rounds[r][t][1] \o " vs " \o rounds[r][t][2]
                      ELSE ""

\* C4 as stated: whatever the player list and the schedule,
\* build_schedule_df raises nothing and yields the table.
C4_AnyScheduleGivesTheTable ==
    pc # "scheduled" => (pc = "tabled" /\ err = "" /\ ScheduleTableAsClaimed)

\* The schedules the builder accepts: at least one round (or no table to
\* label), and no round with more pairings than there are tables.
FitsTheTables ==
    /\ Len(rounds) >= 1 \/ Tables = 0
    /\ \A r \in 1..Len(rounds) : Len(rounds[r]) <= Tables

\* C4 amended: for a schedule of at least one round (or a list of fewer than
\* two players), none of whose rounds has more than N div 2 pairings, the
\* table is as claimed, short rounds padded with "" and no error raised;
\* any other schedule makes the builder raise ValueError.
C4_FittingScheduleGivesTheTable ==
    pc # "scheduled" =>
        IF FitsTheTables
          THEN pc = "tabled" /\ err = "" /\ ScheduleTableAsClaimed
          ELSE pc = "error" /\ err = "ValueError"

C4_Witness ==
    /\ pc = "tabled"
    /\ Tables = 2
    /\ Len(rounds) = 2
    /\ Len(rounds[1]) = 2
    /\ Len(rounds[2]) = 1
    /\ schedule_df.data[2] = <<"A vs B", "">>

\* The sheet column a column reference names: A is 1, Z is 26, AA is 27.
LetterIndex(ch) == CHOOSE i \in 1..26 : Alphabet[i] = ch

RECURSIVE ColumnIndex(_)
ColumnIndex(letters) ==
    IF letters = <<>> THEN 0
    ELSE 26 * ColumnIndex(SubSeq(letters, 1, Len(letters) - 1))
            + LetterIndex(letters[Len(letters)])

\* The rows a range reference takes in: a spreadsheet reads B2:B1 as B1:B2.
RangeRows(f) == Min({f.first.row, f.last.row})..Max({f.first.row, f.last.row})

SheetOf(book, name) == book.cells[SheetIndex(book, name)]

\* The Standings sheet on disk: the header, then a row per player in input
\* order holding the player's name and a SUM over the Points sheet.
StandingsListsPlayers ==
    LET g == SheetOf(file, "Standings") IN
    /\ Len(g) = Len(players) + 1
    /\ g[1] = <<Text("Player"), Text("Total Points")>>
    /\ \A i \in 1..Len(players) :
          /\ Len(g[i + 1]) = 2
          /\ g[i + 1][1] = Text(players[i])
          /\ g[i + 1][2].kind = "formula"
          /\ g[i + 1][2].fn = "SUM"
          /\ g[i + 1][2].sheet = "Points"

\* Player i's formula is over sheet column i + 1 of Points, which is headed
\* by that player's name.
StandingsSumsOwnColumn ==
    LET g   == SheetOf(file, "Standings")
        pts == SheetOf(file, "Points")
    IN  \A i \in 1..Len(players) :
          /\ ColumnIndex(g[i + 1][2].first.col) = i + 1
          /\ ColumnIndex(g[i + 1][2].last.col) = i + 1
          /\ pts[1][i + 1] = Text(players[i])

\* Player i's formula takes in rows 2..R+1 of Points, its R round rows, and
\* not the header row.
StandingsSumsRoundRows ==
    LET g   == SheetOf(file, "Standings")
        pts == SheetOf(file, "Points")
        R   == Len(points_df.index)
    IN  /\ Len(pts) = R + 1
        /\ \A i \in 1..Len(players) :
              /\ RangeRows(g[i + 1][2]) = 2..(R + 1)
              /\ 1 \notin RangeRows(g[i + 1][2])

\* C5 as stated: for every player list and every round count R, zero
\* included.
C5_StandingsForEveryRoundCount ==
    pc = "saved" =>
        (StandingsListsPlayers /\ StandingsSumsOwnColumn /\ StandingsSumsRoundRows)

\* C5 amended: the header, the players' rows and the column of every
\* formula are as claimed for every R; the rows summed are exactly 2..R+1
\* for every R >= 1.  (For R = 0 the range is written <col>2:<col>1.)
C5_StandingsForAtLeastOneRound ==
    pc = "saved" =>
        /\ StandingsListsPlayers
        /\ StandingsSumsOwnColumn
        /\ Len(points_df.index) >= 1 => StandingsSumsRoundRows
        /\ Len(points_df.index) = 0 =>
              \A i \in 1..Len(players) :
                  LET f == SheetOf(file, "Standings")[i + 1][2]
                  IN  f.first.row = 2 /\ f.last.row = 1

C5_Witness ==
    /\ pc = "saved"
    /\ Len(players) = 26
    /\ Len(points_df.index) = 2
    /\ SheetOf(file, "Standings")[27][2].last = [col |-> <<"A", "A">>, row |-> 3]

\* The schedule main builds from its inputs.
ScheduleOf(ps, dbl) ==
    IF dbl THEN double_round_robin(round_robin_pairings(ps))
    ELSE round_robin_pairings(ps)

\* The three sheets as a function of main's inputs.
SheetsOf(ps, dbl) ==
    LET pts == build_points_df(ps, Len(ScheduleOf(ps, dbl))) IN
    << Grid(build_schedule_df(ps, ScheduleOf(ps, dbl)).df),
       Grid(pts),
       StandingsRows(pts) >>

\* C6: after every completed run, whatever the path held before, the
\* workbook has exactly the sheets Schedule, Points and Standings and their
\* cells are those of the last run's inputs alone.
C6_WorkbookIsFunctionOfLastInputs ==
    pc = "done" =>
        /\ file.exists
        /\ file.names = <<"Schedule", "Points", "Standings">>
        /\ file.cells = SheetsOf(players, double_round)

C6_Witness ==
    /\ pc = "done"
    /\ runs = 2
    /\ HasSheet(prior, "Standings")
    /\ HasSheet(prior, "Notes")
    /\ SheetOf(prior, "Standings") # SheetOf(file, "Standings")

\* C9: from the end of the first file operation to the end of the second
\* the artifact on disk holds the Schedule and Points sheets of this run,
\* unsized, and no Standings sheet; once the second has ended it holds
\* Standings.
C9_NoStandingsBetweenTheTwoWrites ==
    /\ pc \in {"written", "loaded", "standings", "sized"} =>
          /\ file.exists
          /\ file.names = <<"Schedule", "Points">>
          /\ ~HasSheet(file, "Standings")
          /\ file.cells = <<Grid(schedule_df), Grid(points_df)>>
          /\ file.widths = << <<>>, <<>> >>
    /\ pc \in {"saved", "done"} => HasSheet(file, "Standings")

C9_Witness ==
    /\ pc = "sized"
    /\ HasSheet(prior, "Standings")
    /\ HasSheet(wb, "Standings")
    /\ ~HasSheet(file, "Standings")

=============================================================================
